---- MODULE Spec2Model ----
(***************************************************************************)
(* A model of paulball: the DataPrep pipeline (utils.py), the              *)
(* PredictScoreline stages (score.py), the Monte Carlo batch driver and    *)
(* get_random_date.  Data frames are sequences of records, one record per  *)
(* row, in row order.  Dates are day numbers.                              *)
(***************************************************************************)
EXTENDS Integers, Sequences, FiniteSets, TLC

VARIABLES
    \* a DataPrep object and the position of its execute()
    results_df, rankings_df, points_df, dp_pc, dp_raised,
    \* one PredictScoreline.execute(): the fields it reads, its locals, its
    \* position and the exception that left it
    self, prepared_df, home_team_df, away_team_df, home_goals_dict, away_goals_dict,
    projected, ps_pc, ps_raised,
    \* one expected_scoreline(): its arguments, its locals and its loop index
    home_goal_prob_list, away_goal_prob_df, es_i, expected_scoreline_df,
    home_win_probability, away_win_probability, draw_probability, max_probability,
    aw_prob,
    \* one predict_final_score(): the decorator's loop and the aggregate
    results, mc_i, printed, home_team_score, away_team_score, pf_pc,
    \* one get_random_date()
    gd_start_date, gd_end_date, gd_random_date, gd_pc,
    \* two interleaved calls of the module-level predict_score instance: their
    \* arguments, positions and locals (the instance's fields are self)
    call_args, call_pc, call_read, call_return

prepVars == <<results_df, rankings_df, points_df, dp_pc, dp_raised>>
predictVars == <<prepared_df, home_team_df, away_team_df, home_goals_dict,
                 away_goals_dict, projected, ps_pc, ps_raised>>
scorelineVars == <<home_goal_prob_list, away_goal_prob_df, es_i, expected_scoreline_df,
                   home_win_probability, away_win_probability, draw_probability,
                   max_probability, aw_prob>>
batchVars == <<results, mc_i, printed, home_team_score, away_team_score, pf_pc>>
dateVars == <<gd_start_date, gd_end_date, gd_random_date, gd_pc>>
callVars == <<call_args, call_pc, call_read, call_return>>
vars == <<prepVars, self, predictVars, scorelineVars, batchVars, dateVars, callVars>>

notPrepVars == <<self, predictVars, scorelineVars, batchVars, dateVars, callVars>>
notPredictVars == <<prepVars, scorelineVars, batchVars, dateVars, callVars>>
notScorelineVars == <<prepVars, self, predictVars, batchVars, dateVars, callVars>>
notBatchVars == <<prepVars, self, predictVars, scorelineVars, dateVars, callVars>>
notDateVars == <<prepVars, self, predictVars, scorelineVars, batchVars, callVars>>
notCallVars == <<prepVars, predictVars, scorelineVars, batchVars, dateVars>>

(***************************************************************************)
(* Bounds of the model.                                                    *)
(***************************************************************************)
MaxSnap == 3        \* rows of the raw rankings table
MaxDate == 4        \* dates are 0..MaxDate
MaxPoints == 1      \* total_points of a raw ranking row are 0..MaxPoints
MaxScore == 1       \* goals of a raw result row are 0..MaxScore
MaxMatches == 2     \* rows of the prepared table a prediction aggregates
MaxMass == 2        \* total weight of a goal distribution given to expected_scoreline
MaxProjected == 2   \* a trial's finite projections are 1..MaxProjected
MaxSpan == 95       \* get_random_date is given start dates up to MaxSpan days before end

\* pandas' missing value (NaN / NaT) of a left merge's unmatched row
NaN == -1

(***************************************************************************)
(* Generic helpers over frames.                                            *)
(***************************************************************************)
RECURSIVE Flatten(_)
Flatten(ss) == IF ss = <<>> THEN <<>> ELSE Head(ss) \o Flatten(Tail(ss))

SeqsUpTo(S, n) == UNION {[1..k -> S] : k \in 0..n}

\* Series.between(left, right): inclusive on both sides; a comparison with a
\* missing value is False
Between(d, left, right) == left # NaN /\ right # NaN /\ left <= d /\ d <= right

(***************************************************************************)
(* Configuration of a DataPrep object (utils.py __init__).                 *)
(***************************************************************************)
DATA_START_DATE == 1
DATA_END_DATE == MaxDate - 1
QUALIFIED_TEAMS == {"United States", "Iran"}

ResultTeams == {"United States", "Iran", "Italy"}
RankingCountries == {"USA", "Iran"}
Dates == 0..MaxDate

\* the country spellings of the rankings table replaced by the results table's
rankings_rename_country_dict(c) ==
    CASE c = "USA" -> "United States"
      [] c = "Korea Republic" -> "South Korea"
      [] c = "IR Iran" -> "Iran"
      [] OTHER -> c

(***************************************************************************)
(* DataPrep.process_results_data                                           *)
(***************************************************************************)
InWindow(r) == Between(r.date, DATA_START_DATE, DATA_END_DATE)
IsQualified(r) == r.home_team \in QUALIFIED_TEAMS \/ r.away_team \in QUALIFIED_TEAMS

process_results_data(df) == SelectSeq(SelectSeq(df, InWindow), IsQualified)

(***************************************************************************)
(* DataPrep.process_rankings_data                                          *)
(***************************************************************************)
RankInWindow(r) == Between(r.rank_date, DATA_START_DATE, DATA_END_DATE)

\* groupby("country_full")["date"].shift(-1): the date of the next row of the
\* same country in table order, missing for the country's last row
ShiftNext(df, i) ==
    LET later == {j \in (i+1)..Len(df) : df[j].country_full = df[i].country_full}
    IN IF later = {} THEN NaN
       ELSE df[CHOOSE j \in later : \A k \in later : j <= k].date

FillNa(v, fill) == IF v = NaN THEN fill ELSE v

process_rankings_data(raw) ==
    LET windowed == SelectSeq(raw, RankInWindow)
        renamed == [i \in 1..Len(windowed) |->
                      [country_full |-> rankings_rename_country_dict(windowed[i].country_full),
                       rank |-> windowed[i].rank,
                       total_points |-> windowed[i].total_points,
                       date |-> windowed[i].rank_date]]
    IN [i \in 1..Len(renamed) |->
          [country_full |-> renamed[i].country_full,
           rank |-> renamed[i].rank,
           total_points |-> renamed[i].total_points,
           start_date |-> renamed[i].date,
           end_date |-> FillNa(ShiftNext(renamed, i), DATA_END_DATE)]]

(***************************************************************************)
(* DataPrep.join_results_ratings_data                                      *)
(***************************************************************************)
NullRating == [country_full |-> "", rank |-> NaN, total_points |-> NaN,
               start_date |-> NaN, end_date |-> NaN]

\* merge(how="left"): one row per matching right row, in right order; a left
\* row without a match is kept once, with missing right columns
LeftMerge(left, right, key) ==
    Flatten([i \in 1..Len(left) |->
        LET hits == SelectSeq(right, LAMBDA k : k.country_full = left[i][key])
        IN IF hits = <<>> THEN << <<left[i], NullRating>> >>
           ELSE [j \in 1..Len(hits) |-> <<left[i], hits[j]>>]])

QueryHalfOpen(p) ==
    /\ p[2].start_date # NaN /\ p[2].end_date # NaN
    /\ p[2].start_date <= p[1].date /\ p[1].date < p[2].end_date
\* .query("date.between(start_date, end_date)")
QueryBetween(p) == Between(p[1].date, p[2].start_date, p[2].end_date)

JoinHome(res, ranks) ==
    LET kept == SelectSeq(LeftMerge(res, ranks, "home_team"), QueryBetween)
    IN [i \in 1..Len(kept) |->
          [date |-> kept[i][1].date,
           home_team |-> kept[i][1].home_team, away_team |-> kept[i][1].away_team,
           home_score |-> kept[i][1].home_score, away_score |-> kept[i][1].away_score,
           home_rank |-> kept[i][2].rank, home_points |-> kept[i][2].total_points]]

JoinAway(pts, ranks) ==
    LET kept == SelectSeq(LeftMerge(pts, ranks, "away_team"), QueryBetween)
    IN [i \in 1..Len(kept) |->
          [date |-> kept[i][1].date,
           home_team |-> kept[i][1].home_team, away_team |-> kept[i][1].away_team,
           home_score |-> kept[i][1].home_score, away_score |-> kept[i][1].away_score,
           home_rank |-> kept[i][1].home_rank, home_points |-> kept[i][1].home_points,
           away_rank |-> kept[i][2].rank, away_points |-> kept[i][2].total_points]]

join_results_ratings_data(res, ranks) == JoinAway(JoinHome(res, ranks), ranks)

(***************************************************************************)
(* Floating point values as non-negative fractions <<n, d>> in lowest      *)
(* terms: <<1, 0>> is inf and <<0, 0>> is NaN, as x / 0 gives in numpy.    *)
(***************************************************************************)
RECURSIVE GCD(_, _)
GCD(a, b) == IF b = 0 THEN a ELSE GCD(b, a % b)

Norm(n, d) == LET g == GCD(n, d) IN IF g = 0 THEN <<0, 0>> ELSE <<n \div g, d \div g>>
FromInt(k) == <<k, 1>>
FInf == <<1, 0>>
FNaN == <<0, 0>>
IsFinite(x) == x[2] # 0
FMul(x, y) == Norm(x[1] * y[1], x[2] * y[2])
FDiv(x, y) == Norm(x[1] * y[2], x[2] * y[1])
FAdd(x, y) == IF x = FInf /\ y = FInf THEN FInf
              ELSE Norm(x[1] * y[2] + y[1] * x[2], x[2] * y[2])

(***************************************************************************)
(* DataPrep.adjusted_goals                                                 *)
(***************************************************************************)
adj_home_score(r) == FDiv(FMul(FromInt(r.home_score), FromInt(r.away_points)),
                          FromInt(r.home_points))
adj_away_score(r) == FDiv(FMul(FromInt(r.away_score), FromInt(r.home_points)),
                          FromInt(r.away_points))

adjusted_goals(pts) ==
    [i \in 1..Len(pts) |->
        [pts[i] EXCEPT !.home_score = adj_home_score(pts[i]),
                       !.away_score = adj_away_score(pts[i])]]

(***************************************************************************)
(* DataPrep.execute: the four stages in order.  No stage raises: pandas    *)
(* drops unmatched rows silently and divides by zero without an exception, *)
(* so dp_raised keeps the value "none" that it has after construction.     *)
(***************************************************************************)
IdlePrep ==
    /\ results_df = <<>>
    /\ rankings_df = <<>>
    /\ points_df = <<>>
    /\ dp_pc = "idle"
    /\ dp_raised = "none"

IdlePredict ==
    /\ prepared_df = <<>>
    /\ home_team_df = <<>>
    /\ away_team_df = <<>>
    /\ home_goals_dict = <<>>
    /\ away_goals_dict = <<>>
    /\ projected = <<>>
    /\ ps_pc = "idle"
    /\ ps_raised = "none"

IdleScoreline ==
    /\ home_goal_prob_list = <<>>
    /\ away_goal_prob_df = <<>>
    /\ es_i = 0
    /\ expected_scoreline_df = <<>>
    /\ home_win_probability = 0
    /\ away_win_probability = 0
    /\ draw_probability = 0
    /\ max_probability = 0
    /\ aw_prob = 0

IdleBatch ==
    /\ results = <<>>
    /\ mc_i = 0
    /\ printed = 0
    /\ home_team_score = <<>>
    /\ away_team_score = <<>>
    /\ pf_pc = "idle"

IdleDate ==
    /\ gd_start_date = <<>>
    /\ gd_end_date = <<>>
    /\ gd_random_date = <<>>
    /\ gd_pc = "idle"

IdleCall ==
    /\ call_args = <<>>
    /\ call_pc = <<>>
    /\ call_read = <<>>
    /\ call_return = <<>>

\* the fields of a PredictScoreline object before any __call__
NoFields == <<>>

RawRankingRow(c, d, p, i) ==
    [country_full |-> c, rank_date |-> d, rank |-> i, total_points |-> p]

RawResultRows(scores) ==
    {r \in [date : Dates, home_team : ResultTeams, away_team : ResultTeams,
            home_score : scores, away_score : scores] :
        r.home_team # r.away_team}

\* Any rankings table of up to MaxSnap rows, in any row order, with every
\* total_points positive; rank numbers the rows.
SnapshotKeys == [country_full : RankingCountries, rank_date : Dates]

RawRankings ==
    {[i \in 1..Len(s) |-> RawRankingRow(s[i].country_full, s[i].rank_date, MaxPoints, i)] :
        s \in SeqsUpTo(SnapshotKeys, MaxSnap)}

InitPrep ==
    /\ results_df \in SeqsUpTo(RawResultRows({MaxScore}), 1)
    /\ rankings_df \in RawRankings
    /\ points_df = <<>>
    /\ dp_pc = "process_results_data"
    /\ dp_raised = "none"
    /\ self = NoFields
    /\ IdlePredict /\ IdleScoreline /\ IdleBatch /\ IdleDate /\ IdleCall

\* One snapshot per ranked country at the start of the window, with any
\* total_points, zero included, and any scores.
FixedRankings ==
    {<<RawRankingRow("USA", DATA_START_DATE, p1, 1),
       RawRankingRow("Iran", DATA_START_DATE, p2, 2)>> :
        p1 \in 0..MaxPoints, p2 \in 0..MaxPoints}

InitAdjust ==
    /\ results_df \in SeqsUpTo(RawResultRows(0..MaxScore), 1)
    /\ rankings_df \in FixedRankings
    /\ points_df = <<>>
    /\ dp_pc = "process_results_data"
    /\ dp_raised = "none"
    /\ self = NoFields
    /\ IdlePredict /\ IdleScoreline /\ IdleBatch /\ IdleDate /\ IdleCall

ProcessResultsData ==
    /\ dp_pc = "process_results_data"
    /\ results_df' = process_results_data(results_df)
    /\ dp_pc' = "process_rankings_data"
    /\ UNCHANGED <<rankings_df, points_df, dp_raised, notPrepVars>>

ProcessRankingsData ==
    /\ dp_pc = "process_rankings_data"
    /\ rankings_df' = process_rankings_data(rankings_df)
    /\ dp_pc' = "join_results_ratings_data"
    /\ UNCHANGED <<results_df, points_df, dp_raised, notPrepVars>>

JoinResultsRatingsData ==
    /\ dp_pc = "join_results_ratings_data"
    /\ points_df' = join_results_ratings_data(results_df, rankings_df)
    /\ dp_pc' = "adjusted_goals"
    /\ UNCHANGED <<results_df, rankings_df, dp_raised, notPrepVars>>

AdjustedGoals ==
    /\ dp_pc = "adjusted_goals"
    /\ points_df' = adjusted_goals(points_df)
    /\ dp_pc' = "done"
    /\ UNCHANGED <<results_df, rankings_df, dp_raised, notPrepVars>>

NextPrep ==
    \/ ProcessResultsData
    \/ ProcessRankingsData
    \/ JoinResultsRatingsData
    \/ AdjustedGoals

SpecPrep == InitPrep /\ [][NextPrep]_vars

SpecAdjust == InitAdjust /\ [][NextPrep]_vars

(***************************************************************************)
(* Properties of the ratings join.                                         *)
(***************************************************************************)
RankingsProcessed == dp_pc \in {"join_results_ratings_data", "adjusted_goals", "done"}
Joined == dp_pc \in {"adjusted_goals", "done"}

SnapshotsOf(team) == {i \in 1..Len(rankings_df) : rankings_df[i].country_full = team}

IsLastOf(i) == \A j \in SnapshotsOf(rankings_df[i].country_full) : j <= i

\* the half-open validity interval [valid_from, valid_to) of snapshot i; the
\* last snapshot of a team is valid through the end of the window
ValidAt(i, d) ==
    /\ rankings_df[i].start_date <= d
    /\ \/ d < rankings_df[i].end_date
       \/ IsLastOf(i) /\ d <= rankings_df[i].end_date

\* the interval as the join evaluates it
ClosedAt(i, d) == rankings_df[i].start_date <= d /\ d <= rankings_df[i].end_date

Chronological(team) ==
    \A i, j \in SnapshotsOf(team) :
        i < j => rankings_df[i].start_date < rankings_df[j].start_date

InCoveredRange(team, d) ==
    /\ SnapshotsOf(team) # {}
    /\ \E i \in SnapshotsOf(team) : rankings_df[i].start_date <= d
    /\ d <= DATA_END_DATE

\* C1: with a team's snapshots in chronological order, a match in the covered
\* range of both teams yields exactly one enriched row, carrying for each team
\* the snapshot whose half-open interval [valid_from, valid_to) contains the
\* match date (so a match dated exactly on a later snapshot's date gets only
\* the later snapshot).
C1_OneSnapshotPerMatch ==
    (Joined /\ Len(results_df) = 1) =>
        LET m == results_df[1] IN
        (/\ Chronological(m.home_team) /\ Chronological(m.away_team)
         /\ InCoveredRange(m.home_team, m.date)
         /\ InCoveredRange(m.away_team, m.date))
        => /\ Len(points_df) = 1
           /\ \E i \in SnapshotsOf(m.home_team) :
                 ValidAt(i, m.date) /\ points_df[1].home_rank = rankings_df[i].rank
           /\ \E i \in SnapshotsOf(m.away_team) :
                 ValidAt(i, m.date) /\ points_df[1].away_rank = rankings_df[i].rank

\* C2: after process_rankings_data, for every team with snapshots the validity
\* intervals are well formed and every date of the configured window lies in
\* exactly one of them (contiguous, non-overlapping, covering the window),
\* whatever the row order of the raw table.
C2_IntervalsTileWindow ==
    RankingsProcessed =>
        \A i \in 1..Len(rankings_df) :
            /\ rankings_df[i].start_date <= rankings_df[i].end_date
            /\ \A d \in DATA_START_DATE..DATA_END_DATE :
                  Cardinality({j \in SnapshotsOf(rankings_df[i].country_full) :
                                  ValidAt(j, d)}) = 1

Covered(team, d) == \E i \in SnapshotsOf(team) : ClosedAt(i, d)

FromMatch(row, m) ==
    /\ row.date = m.date
    /\ row.home_team = m.home_team
    /\ row.away_team = m.away_team

\* C10: the enriched output holds exactly the matches covered for both teams:
\* a match for which the home or the away team has no snapshot whose validity
\* interval contains the match date (a team without snapshots included) is
\* absent, no error is raised for it, and every match covered for both teams
\* is present.
C10_OnlyCoveredMatches ==
    Joined =>
        /\ dp_raised = "none"
        /\ \A k \in 1..Len(points_df) :
              \E n \in 1..Len(results_df) :
                 /\ FromMatch(points_df[k], results_df[n])
                 /\ Covered(results_df[n].home_team, results_df[n].date)
                 /\ Covered(results_df[n].away_team, results_df[n].date)
        /\ \A n \in 1..Len(results_df) :
              (/\ Covered(results_df[n].home_team, results_df[n].date)
               /\ Covered(results_df[n].away_team, results_df[n].date))
              => \E k \in 1..Len(points_df) : FromMatch(points_df[k], results_df[n])

\* a match of the window whose home team has snapshots, none of them covering
\* the match date, has been dropped by the join
C10_Witness ==
    /\ dp_pc = "done"
    /\ Len(results_df) = 1
    /\ SnapshotsOf(results_df[1].home_team) # {}
    /\ ~Covered(results_df[1].home_team, results_df[1].date)
    /\ Covered(results_df[1].away_team, results_df[1].date)
    /\ points_df = <<>>

\* C6: every enriched row gets adj_home = home_score * away_points / home_points
\* and adj_away = away_score * home_points / away_points, and a row whose
\* divisor rating is zero makes the adjustment fail with InvalidRatingError
\* instead of getting an adjusted value.
C6_ZeroRatingIsAnError ==
    dp_pc = "done" =>
        \A k \in 1..Len(points_df) :
            IF points_df[k].home_points = 0 \/ points_df[k].away_points = 0
            THEN dp_raised = "InvalidRatingError"
            ELSE /\ points_df[k].home_score[1] * points_df[k].home_points
                      = points_df[k].home_score[2] * results_df[1].home_score
                                                   * points_df[k].away_points
                 /\ points_df[k].away_score[1] * points_df[k].away_points
                      = points_df[k].away_score[2] * results_df[1].away_score
                                                   * points_df[k].home_points

(***************************************************************************)
(* PredictScoreline.execute after DataPrep: aggregation, goal summaries and *)
(* projected goals.  prepared_df is the table DataPrep.execute returned.    *)
(***************************************************************************)
\* an empty pandas Series (what squeeze() returns for no row, and what any
\* arithmetic with it returns)
EmptySeries == <<>>

RECURSIVE FSum(_)
FSum(xs) == IF xs = <<>> THEN FromInt(0) ELSE FAdd(Head(xs), FSum(Tail(xs)))

RECURSIVE SetToSeq(_)
SetToSeq(S) == IF S = {} THEN <<>>
               ELSE LET x == CHOOSE y \in S : TRUE IN <<x>> \o SetToSeq(S \ {x})

\* Series.mean(): NaN for no row
Mean(xs) == IF xs = <<>> THEN FNaN ELSE FDiv(FSum(xs), FromInt(Len(xs)))

TeamOf(r, team_label) == IF team_label = "home" THEN r.home_team ELSE r.away_team
ScoreOf(r, team_label) == IF team_label = "home" THEN r.home_score ELSE r.away_score
AltLabel(team_label) == IF team_label = "home" THEN "away" ELSE "home"

\* groupby(team).agg(played = nunique(date), goals_for = sum, goals_against =
\* sum) and the two per-game rates: one row per team of df
GroupAggregate(df, team_label) ==
    LET teams == {TeamOf(df[i], team_label) : i \in 1..Len(df)}
        RowOf(t) ==
            LET rows == SelectSeq(df, LAMBDA r : TeamOf(r, team_label) = t)
                played == Cardinality({rows[i].date : i \in 1..Len(rows)})
                goals_for == FSum([i \in 1..Len(rows) |-> ScoreOf(rows[i], team_label)])
                goals_against ==
                    FSum([i \in 1..Len(rows) |-> ScoreOf(rows[i], AltLabel(team_label))])
            IN [team |-> t, played |-> played,
                goals_for |-> goals_for, goals_against |-> goals_against,
                goals_per_game_scored |-> FDiv(goals_for, FromInt(played)),
                goals_per_game_conceded |-> FDiv(goals_against, FromInt(played))]
    IN SetToSeq({RowOf(t) : t \in teams})

\* the rows of the requested team only are aggregated
team_record_aggregation(df, team_label, team_name) ==
    GroupAggregate(SelectSeq(df, LAMBDA r : TeamOf(r, team_label) = team_name), team_label)

\* Series.squeeze(): the scalar of a one-row Series, the Series itself otherwise
Squeeze(xs) == IF Len(xs) = 1 THEN xs[1] ELSE EmptySeries

goal_summaries(teams_df, team_label, team_name) ==
    LET mine == SelectSeq(teams_df, LAMBDA r : r.team = team_name)
    IN [avg_gpg_scored |->
            Mean([i \in 1..Len(teams_df) |-> teams_df[i].goals_per_game_scored]),
        avg_team_gpg_scored |->
            Squeeze([i \in 1..Len(mine) |-> mine[i].goals_per_game_scored]),
        avg_team_gpg_conceded |->
            Squeeze([i \in 1..Len(mine) |-> mine[i].goals_per_game_conceded])]

\* arithmetic of a scalar or an empty Series with a scalar or an empty Series
SDiv(x, y) == IF x = EmptySeries \/ y = EmptySeries THEN EmptySeries ELSE FDiv(x, y)
SMul(x, y) == IF x = EmptySeries \/ y = EmptySeries THEN EmptySeries ELSE FMul(x, y)

projected_goals(home, away) ==
    LET home_attack == SDiv(home.avg_team_gpg_scored, home.avg_gpg_scored)
        away_defence == SDiv(away.avg_team_gpg_conceded, home.avg_gpg_scored)
        away_attack == SDiv(away.avg_team_gpg_scored, away.avg_gpg_scored)
        home_defence == SDiv(home.avg_team_gpg_conceded, away.avg_gpg_scored)
    IN <<SMul(SMul(home_attack, away_defence), home.avg_gpg_scored),
         SMul(SMul(away_attack, home_defence), away.avg_gpg_scored)>>

\* rows of a prepared table: adjusted scores that are whole numbers (the rank
\* and points columns, which no later stage reads, are left out)
PreparedRows ==
    {r \in [date : DATA_START_DATE..DATA_END_DATE,
            home_team : ResultTeams, away_team : ResultTeams,
            home_score : {FromInt(k) : k \in 0..MaxScore},
            away_score : {FromInt(k) : k \in 0..MaxScore}] :
        r.home_team # r.away_team}

Requests ==
    {q \in [home_team : ResultTeams, away_team : ResultTeams] :
        q.home_team # q.away_team}

\* the state in which __call__ has stored the request and DataPrep.execute
\* has returned the prepared table
InitPredict ==
    /\ \E q \in Requests :
          self = [home_team |-> q.home_team, away_team |-> q.away_team,
                  neutral |-> TRUE, results_df |-> "results", rankings_df |-> "rankings",
                  qualified_teams |-> QUALIFIED_TEAMS,
                  start_date |-> DATA_START_DATE, end_date |-> DATA_END_DATE]
    /\ prepared_df \in SeqsUpTo(PreparedRows, MaxMatches)
    /\ home_team_df = <<>>
    /\ away_team_df = <<>>
    /\ home_goals_dict = <<>>
    /\ away_goals_dict = <<>>
    /\ projected = <<>>
    /\ ps_pc = "team_record_aggregation"
    /\ ps_raised = "none"
    /\ IdlePrep /\ IdleScoreline /\ IdleBatch /\ IdleDate /\ IdleCall

\* score.py lines 51-52
TeamRecordAggregation ==
    /\ ps_pc = "team_record_aggregation"
    /\ home_team_df' = team_record_aggregation(prepared_df, "home", self.home_team)
    /\ away_team_df' = team_record_aggregation(prepared_df, "away", self.away_team)
    /\ ps_pc' = "goal_summaries"
    /\ UNCHANGED <<self, notPredictVars, prepared_df, home_goals_dict, away_goals_dict, projected,
                   ps_raised>>

\* score.py lines 55-56
GoalSummaries ==
    /\ ps_pc = "goal_summaries"
    /\ home_goals_dict' = goal_summaries(home_team_df, "home", self.home_team)
    /\ away_goals_dict' = goal_summaries(away_team_df, "away", self.away_team)
    /\ ps_pc' = "projected_goals"
    /\ UNCHANGED <<self, notPredictVars, prepared_df, home_team_df, away_team_df, projected,
                   ps_raised>>

\* score.py line 59
ProjectedGoals ==
    /\ ps_pc = "projected_goals"
    /\ projected' = projected_goals(home_goals_dict, away_goals_dict)
    /\ ps_pc' = "teams_goals_probability"
    /\ UNCHANGED <<self, notPredictVars, prepared_df, home_team_df, away_team_df, home_goals_dict,
                   away_goals_dict, ps_raised>>

\* score.py lines 62-68: math.exp of a Series that is not one row long raises
\* TypeError; of a scalar (NaN and inf included) it returns, and execute
\* returns the two projections whatever the distributions are
TeamsGoalsProbability ==
    /\ ps_pc = "teams_goals_probability"
    /\ IF projected[1] = EmptySeries \/ projected[2] = EmptySeries
       THEN ps_raised' = "TypeError" /\ ps_pc' = "raised"
       ELSE ps_raised' = ps_raised /\ ps_pc' = "returned"
    /\ UNCHANGED <<self, notPredictVars, prepared_df, home_team_df, away_team_df, home_goals_dict,
                   away_goals_dict, projected>>

NextPredict ==
    \/ TeamRecordAggregation
    \/ GoalSummaries
    \/ ProjectedGoals
    \/ TeamsGoalsProbability

SpecPredict == InitPredict /\ [][NextPredict]_vars

(***************************************************************************)
(* Properties of the aggregation and the projection.                       *)
(***************************************************************************)
\* the league-wide average of goals_per_game_scored over all teams' summaries
\* in a role
LeagueAverage(team_label) ==
    LET all == GroupAggregate(prepared_df, team_label)
    IN Mean([i \in 1..Len(all) |-> all[i].goals_per_game_scored])

RoleMatches(team_label, team) ==
    {i \in 1..Len(prepared_df) : TeamOf(prepared_df[i], team_label) = team}

\* C3: the projection uses the league-wide average L of goals_per_game_scored
\* over all teams' summaries in the role: projected_home_goals =
\* (home.gpg_scored / L_home) * (away.gpg_conceded / L_home) * L_home and
\* projected_away_goals = (away.gpg_scored / L_away) * (home.gpg_conceded /
\* L_away) * L_away.  Stated for the requests whose projections are finite.
C3_LeagueWideAverage ==
    (ps_pc = "returned" /\ IsFinite(projected[1]) /\ IsFinite(projected[2])) =>
        LET Lh == LeagueAverage("home")
            La == LeagueAverage("away")
            h == home_team_df[1]
            a == away_team_df[1]
        IN /\ projected[1] = FMul(FMul(FDiv(h.goals_per_game_scored, Lh),
                                       FDiv(a.goals_per_game_conceded, Lh)), Lh)
           /\ projected[2] = FMul(FMul(FDiv(a.goals_per_game_scored, La),
                                       FDiv(h.goals_per_game_conceded, La)), La)

\* C5: a team with exactly one match in the requested role gets played = 1 and
\* defined per-game rates; a team with no match in that role makes the
\* prediction fail with NoDataError, never with an empty, NaN or zero
\* projection.
C5_NoDataIsAnError ==
    /\ (ps_pc \notin {"idle", "team_record_aggregation"}
          /\ Cardinality(RoleMatches("home", self.home_team)) = 1)
       => (/\ Len(home_team_df) = 1
           /\ home_team_df[1].played = 1
           /\ IsFinite(home_team_df[1].goals_per_game_scored)
           /\ IsFinite(home_team_df[1].goals_per_game_conceded))
    /\ (ps_pc \notin {"idle", "team_record_aggregation"}
          /\ Cardinality(RoleMatches("away", self.away_team)) = 1)
       => (/\ Len(away_team_df) = 1
           /\ away_team_df[1].played = 1
           /\ IsFinite(away_team_df[1].goals_per_game_scored)
           /\ IsFinite(away_team_df[1].goals_per_game_conceded))
    /\ (ps_pc \in {"returned", "raised"}
          /\ (RoleMatches("home", self.home_team) = {}
                \/ RoleMatches("away", self.away_team) = {}))
       => ps_raised = "NoDataError"

(***************************************************************************)
(* PredictScoreline.expected_scoreline.  A distribution is a sequence of   *)
(* NGoals non-negative weights; position k + 1 holds the weight of k goals. *)
(***************************************************************************)
NGoals == 9

RECURSIVE SumSeq(_)
SumSeq(xs) == IF xs = <<>> THEN 0 ELSE Head(xs) + SumSeq(Tail(xs))

RECURSIVE MaxSeq(_)
MaxSeq(xs) == IF Len(xs) = 1 THEN xs[1]
              ELSE LET m == MaxSeq(Tail(xs)) IN IF Head(xs) >= m THEN Head(xs) ELSE m

\* temp_df = home_goal * away_goal_prob_df
TempDf(home_goal, away) == [j \in 1..Len(away) |-> home_goal * away[j]]

\* sum(temp_df.iloc[:i])
HwProbMutant(temp_df, i) == SumSeq(SubSeq(temp_df, 1, i + 1))
hw_prob(temp_df, i) == SumSeq(SubSeq(temp_df, 1, i))

\* temp_df.iloc[i]
dr_prob(temp_df, i) == temp_df[i + 1]

\* sum(temp_df.iloc[i + 1 :]) when i < len(home_goal_prob_list); the value
\* of the previous iteration otherwise
aw_prob_of(temp_df, i, n, previous) ==
    IF i < n THEN SumSeq(SubSeq(temp_df, i + 2, Len(temp_df))) ELSE previous

\* the distributions of whole weights with a total of at most m
RECURSIVE DistributionsUpTo(_)
DistributionsUpTo(m) ==
    IF m = 0 THEN {[k \in 1..NGoals |-> 0]}
    ELSE LET less == DistributionsUpTo(m - 1)
         IN less \cup {[d EXCEPT ![k] = @ + 1] : d \in less, k \in 1..NGoals}

Distributions == DistributionsUpTo(MaxMass)

InitScoreline ==
    /\ home_goal_prob_list \in Distributions
    /\ away_goal_prob_df \in Distributions
    /\ es_i = 0
    /\ expected_scoreline_df = <<>>
    /\ home_win_probability = 0
    /\ away_win_probability = 0
    /\ draw_probability = 0
    /\ max_probability = 0
    /\ aw_prob = 0
    /\ self = NoFields
    /\ IdlePrep /\ IdlePredict /\ IdleBatch /\ IdleDate /\ IdleCall

\* one iteration of the loop over enumerate(home_goal_prob_list)
ScorelineIteration ==
    /\ es_i < Len(home_goal_prob_list)
    /\ LET temp_df == TempDf(home_goal_prob_list[es_i + 1], away_goal_prob_df)
           mx_prob == MaxSeq(temp_df)
           aw == aw_prob_of(temp_df, es_i, Len(home_goal_prob_list), aw_prob)
       IN /\ expected_scoreline_df' = Append(expected_scoreline_df, temp_df)
          /\ max_probability' = IF mx_prob >= max_probability
                                THEN mx_prob ELSE max_probability
          /\ aw_prob' = aw
          /\ home_win_probability' = home_win_probability + hw_prob(temp_df, es_i)
          /\ away_win_probability' = away_win_probability + aw
          /\ draw_probability' = draw_probability + dr_prob(temp_df, es_i)
    /\ es_i' = es_i + 1
    /\ UNCHANGED <<home_goal_prob_list, away_goal_prob_df, notScorelineVars>>

NextScoreline == ScorelineIteration

SpecScoreline == InitScoreline /\ [][NextScoreline]_vars

\* the cell M[i][j] = P_home(i) * P_away(j) of the outer product
Cell(i, j) == home_goal_prob_list[i + 1] * away_goal_prob_df[j + 1]

\* the mass of the cells (i, j) of the first k home-goal columns that lie in
\* a region of the matrix
RegionMass(k, InRegion(_, _)) ==
    SumSeq([i \in 1..k |->
        SumSeq([j \in 1..NGoals |->
            IF InRegion(i - 1, j - 1) THEN Cell(i - 1, j - 1) ELSE 0])])

\* C4: the running sums partition the outer product: home_win_probability is
\* the sum of the cells with i > j, draw_probability of the diagonal cells and
\* away_win_probability of the cells with i < j, so that after the loop the
\* three add up to the sum of all 81 cells.
C4_SumsPartitionMatrix ==
    es_i > 0 =>
        /\ home_win_probability = RegionMass(es_i, LAMBDA i, j : i > j)
        /\ draw_probability = RegionMass(es_i, LAMBDA i, j : i = j)
        /\ away_win_probability = RegionMass(es_i, LAMBDA i, j : i < j)
        /\ es_i = NGoals =>
              home_win_probability + draw_probability + away_win_probability
                  = RegionMass(NGoals, LAMBDA i, j : TRUE)

\* the loop has ended over a matrix with mass on, above and below the diagonal
C4_Witness ==
    /\ es_i = NGoals
    /\ home_win_probability > 0
    /\ draw_probability > 0
    /\ away_win_probability > 0

(***************************************************************************)
(* predict_final_score -> match_simulator under monte_carlo_simulation.     *)
(* A trial's predict_score call ends in one of the ways execute can end:    *)
(* it returns two finite projections, it returns NaN projections (a rate of *)
(* 0 / 0), or it raises TypeError (an empty Series reached math.exp).       *)
(***************************************************************************)
\* the decorator's argument: 100 in score.py, a bound here
n_simulations == 3

TrialOutcomes ==
    {[raised |-> "none", value |-> <<FromInt(h), FromInt(a)>>] :
        h \in 1..MaxProjected, a \in 1..MaxProjected}
    \cup {[raised |-> "none", value |-> <<FNaN, FNaN>>],
          [raised |-> "TypeError", value |-> <<>>]}

\* match_simulator's try / except TypeError around predict_score
match_simulator(outcome) ==
    IF outcome.raised = "TypeError" THEN <<FNaN, FNaN>> ELSE outcome.value

\* np.nanmean: the mean of the values that are not NaN, NaN (and a
\* RuntimeWarning) when there is none
NanMean(xs) == Mean(SelectSeq(xs, LAMBDA x : x # FNaN))

InitBatch ==
    /\ results = <<>>
    /\ mc_i = 0
    /\ printed = 0
    /\ home_team_score = <<>>
    /\ away_team_score = <<>>
    /\ pf_pc = "match_simulator"
    /\ self = NoFields
    /\ IdlePrep /\ IdlePredict /\ IdleScoreline /\ IdleDate /\ IdleCall

\* one iteration of the wrapper's loop: func is called and its result appended
Trial ==
    /\ pf_pc = "match_simulator"
    /\ mc_i < n_simulations
    /\ \E outcome \in TrialOutcomes :
          /\ results' = Append(results, match_simulator(outcome))
          /\ printed' = IF outcome.raised = "TypeError" THEN printed + 1 ELSE printed
    /\ mc_i' = mc_i + 1
    /\ UNCHANGED <<home_team_score, away_team_score, pf_pc, self, notBatchVars>>

\* score.py lines 257-259, after the wrapper returned the list
Aggregate ==
    /\ pf_pc = "match_simulator"
    /\ mc_i = n_simulations
    /\ home_team_score' = NanMean([k \in 1..Len(results) |-> results[k][1]])
    /\ away_team_score' = NanMean([k \in 1..Len(results) |-> results[k][2]])
    /\ pf_pc' = "printed"
    /\ UNCHANGED <<results, mc_i, printed, self, notBatchVars>>

NextBatch ==
    \/ Trial
    \/ Aggregate

SpecBatch == InitBatch /\ [][NextBatch]_vars

\* the summary a batch without a successful trial is to report
NoDataError == <<"NoDataError">>

Successful == SelectSeq(results, LAMBDA r : r # <<FNaN, FNaN>>)

\* C7: all n trials are attempted, a failed trial is left out of the
\* aggregate, which is the mean over exactly the successful trials, and when
\* every trial fails the batch reports a NoDataError summary, not an
\* undefined average.
C7_BatchAggregate ==
    pf_pc = "printed" =>
        /\ Len(results) = n_simulations
        /\ IF Successful = <<>>
           THEN home_team_score = NoDataError /\ away_team_score = NoDataError
           ELSE /\ home_team_score = Mean([k \in 1..Len(Successful) |-> Successful[k][1]])
                /\ away_team_score = Mean([k \in 1..Len(Successful) |-> Successful[k][2]])

(***************************************************************************)
(* get_random_date.  A date string "%Y-%m-%d" is <<year, month, day>>;      *)
(* strptime turns it into a day count, on which timedelta arithmetic is     *)
(* done, and strftime turns the day count back.                             *)
(***************************************************************************)
START_DATE == <<2018, 8, 1>>
END_DATE == <<2022, 11, 20>>

EpochYear == START_DATE[1]

IsLeap(y) == (y % 4 = 0 /\ y % 100 # 0) \/ y % 400 = 0
DaysInYear(y) == IF IsLeap(y) THEN 366 ELSE 365
DaysInMonth(y, m) ==
    CASE m \in {1, 3, 5, 7, 8, 10, 12} -> 31
      [] m \in {4, 6, 9, 11} -> 30
      [] OTHER -> IF IsLeap(y) THEN 29 ELSE 28

RECURSIVE DaysBeforeYear(_)
DaysBeforeYear(y) == IF y <= EpochYear THEN 0 ELSE DaysInYear(y - 1) + DaysBeforeYear(y - 1)

RECURSIVE DaysBeforeMonth(_, _)
DaysBeforeMonth(y, m) == IF m = 1 THEN 0
                         ELSE DaysInMonth(y, m - 1) + DaysBeforeMonth(y, m - 1)

\* datetime.strptime(s, "%Y-%m-%d"), as days since 1 January of EpochYear
strptime(s) == DaysBeforeYear(s[1]) + DaysBeforeMonth(s[1], s[2]) + (s[3] - 1)

RECURSIVE MonthDay(_, _, _)
MonthDay(y, m, n) == IF n < DaysInMonth(y, m) THEN <<y, m, n + 1>>
                     ELSE MonthDay(y, m + 1, n - DaysInMonth(y, m))

RECURSIVE YearDay(_, _)
YearDay(y, n) == IF n < DaysInYear(y) THEN MonthDay(y, 1, n)
                 ELSE YearDay(y + 1, n - DaysInYear(y))

\* datetime.strftime("%Y-%m-%d")
strftime(n) == YearDay(EpochYear, n)

\* the least difference in days the function works with
MinDiff == 90

\* randrange(int_diff) draws from 0 .. int_diff - 1
RandomDates(start_date, end_date) ==
    LET start == strptime(start_date)
        date_diff == strptime(end_date) - start
        int_diff == IF date_diff < MinDiff THEN MinDiff ELSE date_diff
    IN {strftime(start + random_days) : random_days \in 0..(int_diff - 1)}

EndDates == {END_DATE, <<2020, 3, 15>>}

InitDate ==
    /\ gd_end_date \in EndDates
    /\ gd_start_date \in {START_DATE}
           \cup {strftime(strptime(gd_end_date) - k) : k \in 0..MaxSpan}
    /\ strptime(gd_start_date) <= strptime(gd_end_date)
    /\ gd_random_date = <<>>
    /\ gd_pc = "called"
    /\ self = NoFields
    /\ IdlePrep /\ IdlePredict /\ IdleScoreline /\ IdleBatch /\ IdleCall

GetRandomDate ==
    /\ gd_pc = "called"
    /\ gd_random_date' \in RandomDates(gd_start_date, gd_end_date)
    /\ gd_pc' = "returned"
    /\ UNCHANGED <<gd_start_date, gd_end_date, self, notDateVars>>

NextDate == GetRandomDate

SpecDate == InitDate /\ [][NextDate]_vars

\* C9: the date returned lies between start_date and end_date and never less
\* than 90 days before end_date; a draw closer to end_date than that is
\* replaced by the date 90 days before end_date.
C9_AtLeastNinetyDaysBeforeEnd ==
    gd_pc = "returned" =>
        /\ strptime(gd_random_date) <= strptime(gd_end_date) - MinDiff
        /\ \/ strptime(gd_start_date) <= strptime(gd_random_date)
           \/ strptime(gd_random_date) = strptime(gd_end_date) - MinDiff

(***************************************************************************)
(* Two threads calling the module-level instance predict_score.  __call__   *)
(* stores its eight arguments in the instance, one assignment after the     *)
(* other, and execute reads them back from the instance, one attribute at a *)
(* time; a thread switch may fall between any two of these steps.           *)
(***************************************************************************)
Callers == {1, 2}

\* score.py lines 32-39, in order
Assignments == <<"home_team", "away_team", "neutral", "results_df", "rankings_df",
                 "qualified_teams", "start_date", "end_date">>

\* the attribute reads of execute, in order: line 47 (the DataPrep arguments),
\* lines 51 and 52, lines 55 and 56.  Each is <<local, field>>.
Reads == << <<"dp_results_df", "results_df">>, <<"dp_rankings_df", "rankings_df">>,
            <<"dp_qualified_teams", "qualified_teams">>,
            <<"dp_start_date", "start_date">>, <<"dp_end_date", "end_date">>,
            <<"aggregation_home_team", "home_team">>,
            <<"aggregation_away_team", "away_team">>,
            <<"summaries_home_team", "home_team">>,
            <<"summaries_away_team", "away_team">> >>

SetField(rec, f, v) == [x \in DOMAIN rec \cup {f} |-> IF x = f THEN v ELSE rec[x]]

CallArguments ==
    {[home_team |-> q.home_team, away_team |-> q.away_team, neutral |-> TRUE,
      results_df |-> "results", rankings_df |-> "rankings",
      qualified_teams |-> QUALIFIED_TEAMS, start_date |-> sd, end_date |-> ed] :
        q \in {r \in Requests : r.home_team \in QUALIFIED_TEAMS
                                  /\ r.away_team \in QUALIFIED_TEAMS},
        sd \in {DATA_START_DATE, DATA_START_DATE + 1},
        ed \in {DATA_END_DATE - 1, DATA_END_DATE}}

\* what execute computes is a function of the values it read
Projection(read) == read

Locals == {Reads[i][1] : i \in 1..Len(Reads)}
FieldOf(local) == Reads[CHOOSE i \in 1..Len(Reads) : Reads[i][1] = local][2]

\* the values execute reads when nothing else writes the instance
OwnReads(args) == [k \in Locals |-> args[FieldOf(k)]]

InitCall ==
    /\ call_args \in [Callers -> CallArguments]
    /\ call_pc = [t \in Callers |-> 1]
    /\ call_read = [t \in Callers |-> <<>>]
    /\ call_return = [t \in Callers |-> <<>>]
    /\ self = NoFields
    /\ IdlePrep /\ IdlePredict /\ IdleScoreline /\ IdleBatch /\ IdleDate

\* one assignment self.<field> = <field> of __call__
CallAssign(t) ==
    /\ call_pc[t] <= Len(Assignments)
    /\ self' = SetField(self, Assignments[call_pc[t]], call_args[t][Assignments[call_pc[t]]])
    /\ call_pc' = [call_pc EXCEPT ![t] = @ + 1]
    /\ UNCHANGED <<call_args, call_read, call_return, notCallVars>>

\* one read of self.<field> in execute
ExecuteRead(t) ==
    /\ call_pc[t] > Len(Assignments)
    /\ call_pc[t] <= Len(Assignments) + Len(Reads)
    /\ LET r == Reads[call_pc[t] - Len(Assignments)]
       IN call_read' = [call_read EXCEPT ![t] = SetField(@, r[1], self[r[2]])]
    /\ call_pc' = [call_pc EXCEPT ![t] = @ + 1]
    /\ UNCHANGED <<self, call_args, call_return, notCallVars>>

\* execute returns its projections and __call__ returns them
CallReturn(t) ==
    /\ call_pc[t] = Len(Assignments) + Len(Reads) + 1
    /\ call_return' = [call_return EXCEPT ![t] = Projection(call_read[t])]
    /\ call_pc' = [call_pc EXCEPT ![t] = @ + 1]
    /\ UNCHANGED <<self, call_args, call_read, notCallVars>>

NextCall ==
    \/ \E t \in Callers : CallAssign(t)
    \/ \E t \in Callers : ExecuteRead(t)
    \/ \E t \in Callers : CallReturn(t)

SpecCall == InitCall /\ [][NextCall]_vars

Returned(t) == call_pc[t] = Len(Assignments) + Len(Reads) + 2

\* C8: when two calls of predict_score are interleaved, each call returns the
\* projection computed from its own home_team, away_team, start_date and
\* end_date, never from the other call's arguments.
C8_CallsAreIndependent ==
    \A t \in Callers :
        Returned(t) => call_return[t] = Projection(OwnReads(call_args[t]))

====
